---- MODULE Spec2Model ----
(***************************************************************************)
(* Model of tooling.py of rplace-2022: the replay driver perform_analysis,  *)
(* the Analysis interface, the Logger decorator and generate_image.         *)
(*                                                                         *)
(* Text is modelled as a sequence of one-character strings, so that         *)
(* str.split, int() and datetime.fromisoformat are computed as Python       *)
(* computes them.  A row is what csv.reader yields: a sequence of fields.   *)
(***************************************************************************)
EXTENDS Integers, Sequences, FiniteSets, TLC

(***************************************************************************)
(* Bounds of the model.                                                    *)
(***************************************************************************)
\* Longest placement history (number of rows of the source).
MaxRows == 2
\* Largest rows_between_updates given to Logger.
MaxInterval == 2
\* The canvas: 2000 x 2000 in tooling.py (lines 12 and 13), scaled down here
\* so that arrays of CANVAS_WIDTH * CANVAS_HEIGHT cells can be enumerated.
CANVAS_WIDTH == 2
CANVAS_HEIGHT == 2
\* Largest intensity in an array given to generate_intensity_image.  Up to
\* it every quotient 255 / range and every product with an intensity is a
\* binary fraction, so that the floating-point values are the exact ones.
MaxIntensity == 3

(***************************************************************************)
(* Program constants.                                                      *)
(***************************************************************************)
DATETIME_CHARS == 19
TIMESTAMP_COLUMN == 0
REDDITOR_COLUMN == 1
COLOR_COLUMN == 2
COORDINATE_COLUMN == 3

\* Python's None.
None == "None"

(***************************************************************************)
(* Text helpers.                                                           *)
(***************************************************************************)
Digits == <<"0", "1", "2", "3", "4", "5", "6", "7", "8", "9">>

IsDigit(c) == \E i \in 1..10 : Digits[i] = c

DigitVal(c) == (CHOOSE i \in 1..10 : Digits[i] = c) - 1

\* s[lo:hi] of Python, for 0 <= lo: the characters at 0-based positions
\* lo .. hi-1, cut off at the end of s.
Slice(s, lo, hi) ==
    LET h == IF hi < Len(s) THEN hi ELSE Len(s)
    IN  IF lo >= h THEN << >> ELSE SubSeq(s, lo + 1, h)

\* row[column] with a 0-based column.
Column(row, column) == row[column + 1]

\* Value of a string of decimal digits (0 for the empty string).
RECURSIVE DecimalValue(_)
DecimalValue(s) ==
    IF s = << >> THEN 0
    ELSE 10 * DecimalValue(SubSeq(s, 1, Len(s) - 1)) + DigitVal(s[Len(s)])

AllDigits(s) == \A i \in 1..Len(s) : IsDigit(s[i])

\* str.strip() for the whitespace of the model's alphabet (the blank).
RECURSIVE StripLeft(_)
StripLeft(s) ==
    IF s # << >> /\ s[1] = " " THEN StripLeft(Tail(s)) ELSE s

RECURSIVE StripRight(_)
StripRight(s) ==
    IF s # << >> /\ s[Len(s)] = " "
    THEN StripRight(SubSeq(s, 1, Len(s) - 1)) ELSE s

Strip(s) == StripRight(StripLeft(s))

\* str.split(','): the pieces between the commas; a string without a comma
\* (the empty string too) is a single piece.
RECURSIVE Split(_)
Split(s) ==
    IF \E i \in 1..Len(s) : s[i] = ","
    THEN LET i == CHOOSE j \in 1..Len(s) :
                      /\ s[j] = ","
                      /\ \A h \in 1..(j - 1) : s[h] # ","
         IN  <<SubSeq(s, 1, i - 1)>> \o Split(SubSeq(s, i + 1, Len(s)))
    ELSE <<s>>

\* The text int() accepts: blanks around, an optional sign, then digits in
\* which single underscores may separate digits.
IntBody(s) ==
    LET t == Strip(s)
    IN  IF t # << >> /\ t[1] \in {"+", "-"} THEN Tail(t) ELSE t

IntValid(s) ==
    LET b == IntBody(s)
    IN  /\ b # << >>
        /\ \A i \in 1..Len(b) : IsDigit(b[i]) \/ b[i] = "_"
        /\ IsDigit(b[1])
        /\ IsDigit(b[Len(b)])
        /\ \A i \in 1..(Len(b) - 1) : ~(b[i] = "_" /\ b[i + 1] = "_")

\* int(s) for a text that IntValid accepts.
IntValue(s) ==
    LET t == Strip(s)
        b == SelectSeq(IntBody(s), IsDigit)
    IN  IF t[1] = "-" THEN 0 - DecimalValue(b) ELSE DecimalValue(b)

(***************************************************************************)
(* datetime.fromisoformat on at most DATETIME_CHARS characters:            *)
(* YYYY-MM-DD[*HH[:MM[:SS]]], where * is any one character.                *)
(***************************************************************************)
IsLeap(y) == (y % 4 = 0 /\ y % 100 # 0) \/ y % 400 = 0

DaysInMonth(y, m) ==
    IF m = 2 THEN (IF IsLeap(y) THEN 29 ELSE 28)
    ELSE IF m \in {4, 6, 9, 11} THEN 30 ELSE 31

Field(s, lo, hi) == DecimalValue(Slice(s, lo, hi))

DateValid(s) ==
    /\ Len(s) >= 10
    /\ AllDigits(Slice(s, 0, 4)) /\ s[5] = "-"
    /\ AllDigits(Slice(s, 5, 7)) /\ s[8] = "-"
    /\ AllDigits(Slice(s, 8, 10))
    /\ Field(s, 0, 4) >= 1
    /\ Field(s, 5, 7) \in 1..12
    /\ Field(s, 8, 10) \in 1..DaysInMonth(Field(s, 0, 4), Field(s, 5, 7))

TimeValid(s) ==
    /\ Len(s) \in {13, 16, 19}
    /\ AllDigits(Slice(s, 11, 13)) /\ Field(s, 11, 13) \in 0..23
    /\ Len(s) >= 16 =>
          /\ s[14] = ":"
          /\ AllDigits(Slice(s, 14, 16)) /\ Field(s, 14, 16) \in 0..59
    /\ Len(s) >= 19 =>
          /\ s[17] = ":"
          /\ AllDigits(Slice(s, 17, 19)) /\ Field(s, 17, 19) \in 0..59

IsoValid(s) == DateValid(s) /\ (Len(s) = 10 \/ TimeValid(s))

\* The datetime fromisoformat returns for a text that IsoValid accepts.
IsoValue(s) ==
    [year   |-> Field(s, 0, 4),
     month  |-> Field(s, 5, 7),
     day    |-> Field(s, 8, 10),
     hour   |-> IF Len(s) >= 13 THEN Field(s, 11, 13) ELSE 0,
     minute |-> IF Len(s) >= 16 THEN Field(s, 14, 16) ELSE 0,
     second |-> IF Len(s) >= 19 THEN Field(s, 17, 19) ELSE 0]

(***************************************************************************)
(* The placement history: the rows csv.reader yields.  Each row is a        *)
(* sequence of fields, each field a text.                                   *)
(***************************************************************************)
TimestampA ==
    <<"2", "0", "2", "2", "-", "0", "4", "-", "0", "1", " ", "1", "2", ":",
      "4", "4", ":", "1", "0", ".", "3", "1", "5", " ", "U", "T", "C">>
\* The same first 19 characters as TimestampA, another tail.
TimestampB ==
    <<"2", "0", "2", "2", "-", "0", "4", "-", "0", "1", " ", "1", "2", ":",
      "4", "4", ":", "1", "0", " ", "U", "T", "C">>
TimestampC ==
    <<"2", "0", "2", "2", "-", "0", "4", "-", "0", "4", " ", "0", "0", ":",
      "5", "3", ":", "5", "1", ".", "5", "7", "7", " ", "U", "T", "C">>

User1 == <<"u", "1">>
User2 == <<"u", "2">>
White == <<"#", "f", "f", "f">>
Black == <<"#", "0", "0", "0">>

PixelRow      == <<TimestampA, User1, White, <<"0", ",", "0">> >>
PixelRowC     == <<TimestampC, User2, Black, <<" ", "1", ",", "+", "1">> >>
RectangleRow  == <<TimestampB, User2, Black, <<"0", ",", "0", ",", "1", ",", "1">> >>
InvertedRow   == <<TimestampA, User1, White, <<"1", ",", "1", ",", "0", ",", "0">> >>
OneIntRow     == <<TimestampA, User1, White, <<"7">> >>
ThreeIntRow   == <<TimestampA, User2, Black, <<"5", ",", "5", ",", "1", "0">> >>
FiveIntRow    == <<TimestampA, User1, White,
                   <<"1", ",", "2", ",", "3", ",", "4", ",", "5">> >>
NotAnIntRow   == <<TimestampA, User1, White, <<"x", ",", "1">> >>
\* The header line of the published history.
HeaderRow     == << <<"t", "i", "m", "e", "s", "t", "a", "m", "p">>,
                    <<"u", "s", "e", "r", "_", "i", "d">>,
                    <<"p", "i", "x", "e", "l", "_", "c", "o", "l", "o", "r">>,
                    <<"c", "o", "o", "r", "d", "i", "n", "a", "t", "e">> >>
\* A line with too few columns.
ShortRow      == <<TimestampA, User1, White>>

Rows ==
    {PixelRow, PixelRowC, RectangleRow, InvertedRow, OneIntRow,
     ThreeIntRow, FiveIntRow, NotAnIntRow, HeaderRow, ShortRow}

Sources == UNION {[1..n -> Rows] : n \in 0..MaxRows}

(***************************************************************************)
(* Decoding of one row, lines 136-146 of perform_analysis.                  *)
(***************************************************************************)
\* row[COORDINATE_COLUMN].split(',')
CoordinateTexts(row) == Split(Column(row, COORDINATE_COLUMN))

\* [int(coordinate) for coordinate in row[COORDINATE_COLUMN].split(',')]
Coordinates(row) ==
    [i \in 1..Len(CoordinateTexts(row)) |-> IntValue(CoordinateTexts(row)[i])]

\* A decoding that lets any number of integers other than 4 pass as a pixel
\* (the unpacking of line 145 not failing).
DecodeErrorAnyCount(row) ==
    IF Len(row) <= TIMESTAMP_COLUMN THEN "IndexError"
    ELSE IF ~IsoValid(Slice(Column(row, TIMESTAMP_COLUMN), 0, DATETIME_CHARS))
         THEN "ValueError"
    ELSE IF Len(row) <= COORDINATE_COLUMN THEN "IndexError"
    ELSE IF \E i \in 1..Len(CoordinateTexts(row)) :
                ~IntValid(CoordinateTexts(row)[i])
         THEN "ValueError"
    ELSE None

\* A decoding that parses the whole timestamp field, not its first
\* DATETIME_CHARS characters.
DecodeErrorWholeTimestamp(row) ==
    IF Len(row) <= TIMESTAMP_COLUMN THEN "IndexError"
    ELSE IF ~IsoValid(Column(row, TIMESTAMP_COLUMN)) THEN "ValueError"
    ELSE IF Len(row) <= COORDINATE_COLUMN THEN "IndexError"
    ELSE IF \E i \in 1..Len(CoordinateTexts(row)) :
                ~IntValid(CoordinateTexts(row)[i])
         THEN "ValueError"
    ELSE IF Len(CoordinateTexts(row)) = 4 THEN None
    ELSE IF Len(CoordinateTexts(row)) # 2 THEN "ValueError"
    ELSE None

\* The exception the decoding of row raises, in the order the statements
\* run, or None.
DecodeError(row) ==
    IF Len(row) <= TIMESTAMP_COLUMN THEN "IndexError"
    ELSE IF ~IsoValid(Slice(Column(row, TIMESTAMP_COLUMN), 0, DATETIME_CHARS))
         THEN "ValueError"
    ELSE IF Len(row) <= REDDITOR_COLUMN THEN "IndexError"
    ELSE IF Len(row) <= COLOR_COLUMN THEN "IndexError"
    ELSE IF Len(row) <= COORDINATE_COLUMN THEN "IndexError"
    ELSE IF \E i \in 1..Len(CoordinateTexts(row)) :
                ~IntValid(CoordinateTexts(row)[i])
         THEN "ValueError"
    ELSE IF Len(CoordinateTexts(row)) = 4 THEN None
    \* x, y = coordinates
    ELSE IF Len(CoordinateTexts(row)) # 2 THEN "ValueError"
    ELSE None

\* The handler perform_analysis chooses for a row that decodes.
HandlerOf(row) ==
    IF Len(Coordinates(row)) = 4 THEN "on_rectangle" ELSE "on_pixel"

\* The call perform_analysis makes for a row that decodes.
CallOf(row) ==
    [handler     |-> HandlerOf(row),
     timestamp   |-> IsoValue(Slice(Column(row, TIMESTAMP_COLUMN), 0,
                                    DATETIME_CHARS)),
     redditor    |-> Column(row, REDDITOR_COLUMN),
     coordinates |-> Coordinates(row),
     color       |-> Column(row, COLOR_COLUMN)]

(***************************************************************************)
(* State.                                                                  *)
(***************************************************************************)
VARIABLES
    source,                \* the rows of the placement history
    logger,                \* TRUE: the analysis given is Logger(delegate)
    overriding,            \* TRUE: the wrapped/plain analysis is a subclass
                           \*       that overrides the handlers and result
    rows_between_updates,  \* Logger.rows_between_updates
    rows_processed,        \* Logger.rows_processed
    _result,               \* Analysis._result of the plain analysis
    file,                  \* "unopened", "open" or "closed"
    position,              \* rows the reader has yielded so far
    pc,                    \* where perform_analysis is
    returned,              \* what perform_analysis returned
    raised,                \* the exception perform_analysis propagated
    trace,                 \* the calls and console output so far, in order
    array,                 \* generate_image: the array given
    rgb_provider,          \* generate_image: the provider given
    overflow_raises,       \* TRUE: numpy refuses an integer outside uint8
    k,                     \* generate_image: cells enumerated so far
    rgbs,                  \* generate_image: the rows built so far
    image,                 \* generate_image: the image returned
    render_raised,         \* generate_image: the exception propagated
    render_pc,             \* where generate_image is
    offset,                \* generate_intensity_image: offset
    range,                 \* generate_intensity_image: range
    scale,                 \* generate_intensity_image: scale, a fraction
    float_wraps            \* TRUE: a float beyond uint8 is stored modulo
                           \*       256; FALSE: it is stored saturated

replayVars ==
    <<source, logger, overriding, rows_between_updates, rows_processed,
      _result, file, position, pc, returned, raised, trace>>

renderVars ==
    <<array, rgb_provider, overflow_raises, k, rgbs, image, render_raised,
      render_pc, offset, range, scale, float_wraps>>

vars == <<replayVars, renderVars>>

\* rows_between_updates when none is given (line 159).
DefaultInterval == 10000

(***************************************************************************)
(* The analysis objects.  A handler works on the part of the state the     *)
(* analysis objects own, m = [trace, _result, rows_processed, raised], and *)
(* yields that part as the handler leaves it.                              *)
(***************************************************************************)
Entry(op, target, arg) == [op |-> op, target |-> target, arg |-> arg]

\* What an overriding analysis merges into its aggregate for one call.
Merge(aggregate, call) == Append(aggregate, call)

\* An on_pixel of Analysis that keeps something of the call in _result.
Analysis_on_pixel_recording(m, call, target, fails) ==
    LET called == [m EXCEPT !.trace =
                       Append(@, Entry("on_pixel", target, <<call>>))]
    IN  IF ~overriding THEN [called EXCEPT !._result = "on_pixel"]
        ELSE IF fails THEN [called EXCEPT !.raised = "HandlerError"]
        ELSE [called EXCEPT !._result = Append(@, call)]

\* on_pixel / on_rectangle of the plain analysis, called as `target`.  The
\* handlers of Analysis itself pass; those of a subclass merge the call
\* into the aggregate, or raise.
Analysis_on_pixel(m, call, target, fails) ==
    LET called == [m EXCEPT !.trace =
                       Append(@, Entry("on_pixel", target, <<call>>))]
    IN  IF ~overriding THEN called
        ELSE IF fails THEN [called EXCEPT !.raised = "HandlerError"]
        ELSE [called EXCEPT !._result = Merge(@, call)]

Analysis_on_rectangle(m, call, target, fails) ==
    LET called == [m EXCEPT !.trace =
                       Append(@, Entry("on_rectangle", target, <<call>>))]
    IN  IF ~overriding THEN called
        ELSE IF fails THEN [called EXCEPT !.raised = "HandlerError"]
        ELSE [called EXCEPT !._result = Merge(@, call)]

\* Analysis.result, called as `target`: returns self._result.  The trace
\* keeps the call and, when it returns, the value returned.
Analysis_result(m, target, fails) ==
    LET called == [m EXCEPT !.trace =
                       Append(@, Entry("result", target, << >>))]
    IN  IF overriding /\ fails
        THEN [state |-> [called EXCEPT !.raised = "ResultError"],
              value |-> None]
        ELSE [state |-> [called EXCEPT !.trace =
                            Append(@, Entry("return", target,
                                            <<called._result>>))],
              value |-> called._result]

\* str(n) for n >= 0.
RECURSIVE Str(_)
Str(n) ==
    IF n < 10 THEN <<Digits[n + 1]>>
    ELSE Str(n \div 10) \o <<Digits[(n % 10) + 1]>>

RowsProcessedText ==
    <<" ", "r", "o", "w", "s", " ", "p", "r", "o", "c", "e", "s", "s", "e", "d">>
FormulatingText ==
    <<"F", "o", "r", "m", "u", "l", "a", "t", "i", "n", "g", " ",
      "f", "i", "n", "a", "l", " ", "r", "e", "s", "u", "l", "t">>
DoneText == <<"D", "o", "n", "e">>

MESSAGE_LENGTH == 30

\* str.ljust(width): blanks appended up to width.
RECURSIVE Ljust(_, _)
Ljust(s, width) ==
    IF Len(s) >= width THEN s ELSE Ljust(Append(s, " "), width)

\* Logger.log: print(message.ljust(MESSAGE_LENGTH), end='\r')
Logger_log(m, message) ==
    [m EXCEPT !.trace =
        Append(@, Entry("print", "console",
                        <<Ljust(message, MESSAGE_LENGTH) \o <<"\r">> >>))]

\* An on_any_row that tests the count before incrementing it.
Logger_on_any_row_test_first(m) ==
    LET counted == [m EXCEPT !.rows_processed = @ + 1]
    IN  IF rows_between_updates = 0
        THEN [counted EXCEPT !.raised = "ZeroDivisionError"]
        ELSE IF m.rows_processed % rows_between_updates = 0
        THEN Logger_log(counted,
                        Str(m.rows_processed) \o RowsProcessedText)
        ELSE counted

\* Logger.on_any_row
Logger_on_any_row(m) ==
    LET counted == [m EXCEPT !.rows_processed = @ + 1]
    IN  IF rows_between_updates = 0
        THEN [counted EXCEPT !.raised = "ZeroDivisionError"]
        ELSE IF counted.rows_processed % rows_between_updates = 0
        THEN Logger_log(counted,
                        Str(counted.rows_processed) \o RowsProcessedText)
        ELSE counted

\* An on_pixel of Logger that counts the row before forwarding it.
Logger_on_pixel_count_first(m, call, fails) ==
    LET called == [m EXCEPT !.trace =
                       Append(@, Entry("on_pixel", "logger", <<call>>))]
        counted == [called EXCEPT !.rows_processed = @ + 1]
        forwarded == Analysis_on_pixel(counted, call, "delegate", fails)
    IN  IF forwarded.raised # None THEN forwarded
        ELSE IF rows_between_updates = 0
        THEN [forwarded EXCEPT !.raised = "ZeroDivisionError"]
        ELSE IF forwarded.rows_processed % rows_between_updates = 0
        THEN Logger_log(forwarded,
                        Str(forwarded.rows_processed) \o RowsProcessedText)
        ELSE forwarded

\* Logger.on_pixel
Logger_on_pixel(m, call, fails) ==
    LET called == [m EXCEPT !.trace =
                       Append(@, Entry("on_pixel", "logger", <<call>>))]
        forwarded == Analysis_on_pixel(called, call, "delegate", fails)
    IN  IF forwarded.raised # None THEN forwarded
        ELSE Logger_on_any_row(forwarded)

\* A Logger.on_rectangle that forwards to the delegate's on_pixel.
Logger_on_rectangle_as_pixel(m, call, fails) ==
    LET called == [m EXCEPT !.trace =
                       Append(@, Entry("on_rectangle", "logger", <<call>>))]
        forwarded == Analysis_on_pixel(called, call, "delegate", fails)
    IN  IF forwarded.raised # None THEN forwarded
        ELSE Logger_on_any_row(forwarded)

\* Logger.on_rectangle
Logger_on_rectangle(m, call, fails) ==
    LET called == [m EXCEPT !.trace =
                       Append(@, Entry("on_rectangle", "logger", <<call>>))]
        forwarded == Analysis_on_rectangle(called, call, "delegate", fails)
    IN  IF forwarded.raised # None THEN forwarded
        ELSE Logger_on_any_row(forwarded)

\* A result of Logger that reports 'Done' before asking the delegate.
Logger_result_done_first(m, fails) ==
    LET called == [m EXCEPT !.trace =
                       Append(@, Entry("result", "logger", << >>))]
        announced == Logger_log(Logger_log(called, FormulatingText), DoneText)
        inner == Analysis_result(announced, "delegate", fails)
    IN  IF inner.state.raised # None THEN inner
        ELSE [state |-> [inner.state EXCEPT !.trace =
                            Append(@, Entry("return", "logger",
                                            <<inner.value>>))],
              value |-> inner.value]

\* Logger.result
Logger_result(m, fails) ==
    LET called == [m EXCEPT !.trace =
                       Append(@, Entry("result", "logger", << >>))]
        announced == Logger_log(called, FormulatingText)
        inner == Analysis_result(announced, "delegate", fails)
        done == Logger_log(inner.state, DoneText)
    IN  IF inner.state.raised # None THEN inner
        ELSE [state |-> [done EXCEPT !.trace =
                            Append(@, Entry("return", "logger",
                                            <<inner.value>>))],
              value |-> inner.value]

(***************************************************************************)
(* perform_analysis, lines 134-148.                                        *)
(***************************************************************************)
\* The part of the state the analysis objects own.
Owned ==
    [trace |-> trace, _result |-> _result,
     rows_processed |-> rows_processed, raised |-> raised]

\* analysis.on_pixel / on_rectangle / result for the analysis given.
on_pixel(m, call, fails) ==
    IF logger THEN Logger_on_pixel(m, call, fails)
    ELSE Analysis_on_pixel(m, call, "analysis", fails)

\* A dispatch of rectangles to on_pixel.
on_rectangle_as_pixel(m, call, fails) ==
    IF logger THEN Logger_on_pixel(m, call, fails)
    ELSE Analysis_on_pixel(m, call, "analysis", fails)

on_rectangle(m, call, fails) ==
    IF logger THEN Logger_on_rectangle(m, call, fails)
    ELSE Analysis_on_rectangle(m, call, "analysis", fails)

result(m, fails) ==
    IF logger THEN Logger_result(m, fails)
    ELSE Analysis_result(m, "analysis", fails)

\* Only the handlers of a subclass have a body that can raise.
Failures == IF overriding THEN BOOLEAN ELSE {FALSE}

\* A reader that yields the rows from the last to the first.
RowFromEnd == source[Len(source) - position]

\* The next row of the reader.
Row == source[position + 1]

\* Leaving the with block of line 134: gzip closes the file, on the normal
\* path and when an exception passes through.
LeaveWith(t) == Append(t, Entry("close", "file", << >>))

\* gzip.open(gzip_path, 'rt') succeeds.
Open ==
    /\ pc = "start"
    /\ file' = "open"
    /\ trace' = Append(trace, Entry("open", "file", << >>))
    /\ pc' = "loop"
    /\ UNCHANGED <<source, logger, overriding, rows_between_updates,
                   rows_processed, _result, position, returned, raised>>
    /\ UNCHANGED renderVars

\* gzip.open raises (no such file): nothing was acquired.
OpenFail ==
    /\ pc = "start"
    /\ raised' = "OSError"
    /\ pc' = "failed"
    /\ UNCHANGED <<source, logger, overriding, rows_between_updates,
                   rows_processed, _result, file, position, returned, trace>>
    /\ UNCHANGED renderVars

\* The reader raises while fetching the next row (damaged gzip data).
ReadFail ==
    /\ pc = "loop"
    /\ raised' = "ReadError"
    /\ file' = "closed"
    /\ trace' = LeaveWith(trace)
    /\ pc' = "failed"
    /\ UNCHANGED <<source, logger, overriding, rows_between_updates,
                   rows_processed, _result, position, returned>>
    /\ UNCHANGED renderVars

\* A decoding failure after which result() is still called (the return of
\* line 148 in a finally clause).
DecodeFailThenResult ==
    /\ pc = "loop"
    /\ position < Len(source)
    /\ DecodeError(Row) # None
    /\ position' = position + 1
    /\ raised' = DecodeError(Row)
    /\ file' = "closed"
    /\ trace' = LeaveWith(trace)
    /\ pc' = "result"
    /\ UNCHANGED <<source, logger, overriding, rows_between_updates,
                   rows_processed, _result, returned>>
    /\ UNCHANGED renderVars

\* A decoding failure that is swallowed: the row is dropped and the loop
\* goes on.
DecodeFailSkipped ==
    /\ pc = "loop"
    /\ position < Len(source)
    /\ DecodeError(Row) # None
    /\ position' = position + 1
    /\ UNCHANGED <<source, logger, overriding, rows_between_updates,
                   rows_processed, _result, file, pc, returned, raised,
                   trace>>
    /\ UNCHANGED renderVars

\* One turn of the loop for a row whose decoding raises.
DecodeFail ==
    /\ pc = "loop"
    /\ position < Len(source)
    /\ DecodeError(Row) # None
    /\ position' = position + 1
    /\ raised' = DecodeError(Row)
    /\ file' = "closed"
    /\ trace' = LeaveWith(trace)
    /\ pc' = "failed"
    /\ UNCHANGED <<source, logger, overriding, rows_between_updates,
                   rows_processed, _result, returned>>
    /\ UNCHANGED renderVars

\* A loop without the with block: an exception leaves the file open.
AfterHandlerNoWith(m) ==
    /\ position' = position + 1
    /\ _result' = m._result
    /\ rows_processed' = m.rows_processed
    /\ raised' = m.raised
    /\ trace' = m.trace
    /\ IF m.raised # None
       THEN pc' = "failed" /\ UNCHANGED file
       ELSE UNCHANGED <<file, pc>>
    /\ UNCHANGED <<source, logger, overriding, rows_between_updates, returned>>
    /\ UNCHANGED renderVars

\* A loop whose first turn already ends it (the return of line 148 inside
\* the loop).
AfterHandlerReturnInLoop(m) ==
    /\ position' = position + 1
    /\ _result' = m._result
    /\ rows_processed' = m.rows_processed
    /\ raised' = m.raised
    /\ file' = "closed"
    /\ trace' = LeaveWith(m.trace)
    /\ pc' = IF m.raised # None THEN "failed" ELSE "result"
    /\ UNCHANGED <<source, logger, overriding, rows_between_updates, returned>>
    /\ UNCHANGED renderVars

\* The state after the handler call of one turn of the loop left m.
AfterHandler(m) ==
    /\ position' = position + 1
    /\ _result' = m._result
    /\ rows_processed' = m.rows_processed
    /\ raised' = m.raised
    /\ IF m.raised # None
       THEN /\ file' = "closed"
            /\ trace' = LeaveWith(m.trace)
            /\ pc' = "failed"
       ELSE /\ trace' = m.trace
            /\ UNCHANGED <<file, pc>>
    /\ UNCHANGED <<source, logger, overriding, rows_between_updates, returned>>
    /\ UNCHANGED renderVars

\* One turn of the loop for a row of four coordinates (lines 141-143).
DispatchRectangle ==
    /\ pc = "loop"
    /\ position < Len(source)
    /\ DecodeError(Row) = None
    /\ Len(Coordinates(Row)) = 4
    /\ \E fails \in Failures :
          AfterHandler(on_rectangle(Owned, CallOf(Row), fails))

\* One turn of the loop for any other row that decodes (lines 144-146).
DispatchPixel ==
    /\ pc = "loop"
    /\ position < Len(source)
    /\ DecodeError(Row) = None
    /\ Len(Coordinates(Row)) # 4
    /\ \E fails \in Failures :
          AfterHandler(on_pixel(Owned, CallOf(Row), fails))

\* The reader is exhausted: the loop and the with block end.
EndOfStream ==
    /\ pc = "loop"
    /\ position = Len(source)
    /\ file' = "closed"
    /\ trace' = LeaveWith(trace)
    /\ pc' = "result"
    /\ UNCHANGED <<source, logger, overriding, rows_between_updates,
                   rows_processed, _result, position, returned, raised>>
    /\ UNCHANGED renderVars

\* return analysis.result()
Result ==
    /\ pc = "result"
    /\ \E fails \in Failures :
          LET r == result(Owned, fails)
          IN  /\ trace' = r.state.trace
              /\ _result' = r.state._result
              /\ rows_processed' = r.state.rows_processed
              /\ raised' = r.state.raised
              /\ IF r.state.raised # None
                 THEN pc' = "failed" /\ UNCHANGED returned
                 ELSE pc' = "done" /\ returned' = r.value
    /\ UNCHANGED <<source, logger, overriding, rows_between_updates, file,
                   position>>
    /\ UNCHANGED renderVars

Intervals == (0..MaxInterval) \cup {DefaultInterval}

RenderIdle ==
    /\ array = << >>
    /\ rgb_provider = "none"
    /\ overflow_raises = FALSE
    /\ k = 0
    /\ rgbs = << >>
    /\ image = None
    /\ render_raised = None
    /\ render_pc = "idle"
    /\ offset = 0
    /\ range = 0
    /\ scale = [num |-> 0, den |-> 1]
    /\ float_wraps = FALSE

Init ==
    /\ source \in Sources
    /\ logger \in BOOLEAN
    /\ overriding \in BOOLEAN
    /\ rows_between_updates \in
          (IF logger THEN Intervals ELSE {DefaultInterval})
    /\ rows_processed = 0
    /\ _result = (IF overriding THEN << >> ELSE None)
    /\ file = "unopened"
    /\ position = 0
    /\ pc = "start"
    /\ returned = None
    /\ raised = None
    /\ trace = << >>
    /\ RenderIdle

Next ==
    \/ Open
    \/ OpenFail
    \/ ReadFail
    \/ DecodeFail
    \/ DispatchRectangle
    \/ DispatchPixel
    \/ EndOfStream
    \/ Result

Spec == Init /\ [][Next]_vars

(***************************************************************************)
(* generate_image, lines 197-207.                                          *)
(***************************************************************************)
\* The values of the cells of an array.
Values == {0, 1}

\* Longest array given: one row more than the canvas holds.
MaxArrayLen == CANVAS_WIDTH * (CANVAS_HEIGHT + 1)

Arrays == UNION {[1..n -> Values] : n \in 0..MaxArrayLen}

\* The providers given: one whose components all fit 8 bits, one whose
\* components do not.
Providers == {"palette", "wide"}

\* The closure rgb_provider of generate_intensity_image (lines 216-218):
\* value = scale * intensity - offset, a float, kept as a fraction.
IntensityRgb(intensity) ==
    LET value == [num |-> scale.num * intensity - offset * scale.den,
                  den |-> scale.den]
    IN  <<value, value, value>>

\* rgb_provider(v)
RgbOf(provider, v) ==
    IF provider = "palette" THEN <<255 * v, 20 + v, 7>>
    ELSE IF provider = "intensity" THEN IntensityRgb(v)
    ELSE <<300 * v, 0 - v, 256>>

MAX_UINT8 == 255

FitsUint8(c) == c \in 0..MAX_UINT8

\* An integer stored with dtype=np.uint8 by a numpy that does not refuse it.
Uint8(c) == c % (MAX_UINT8 + 1)

\* A float truncated toward zero.
Truncated(f) ==
    IF f.num >= 0 THEN f.num \div f.den ELSE 0 - ((0 - f.num) \div f.den)

\* A float stored with dtype=np.uint8: truncated; beyond 0..255 the C
\* conversion is undefined, and the builds wrap or saturate.
FloatToUint8(f) ==
    IF FitsUint8(Truncated(f)) THEN Truncated(f)
    ELSE IF float_wraps THEN Truncated(f) % (MAX_UINT8 + 1)
    ELSE IF Truncated(f) > MAX_UINT8 THEN MAX_UINT8
    ELSE 0

\* The rows are of one length, so that np.array can build the grid.
Rectangular(grid) == \A y \in 1..Len(grid) : Len(grid[y]) = Len(grid[1])

Components(grid) ==
    {grid[y][x][c] : y \in 1..Len(grid), x \in 1..Len(grid[1]), c \in 1..3}

\* An image built with rows and columns exchanged.
ImageOfTransposed(grid) ==
    [mode   |-> "RGB",
     width  |-> Len(grid),
     height |-> Len(grid[1]),
     pixels |-> [y \in 1..Len(grid[1]) |->
                   [x \in 1..Len(grid) |->
                      [c \in 1..3 |-> Uint8(grid[x][y][c])]]]]

\* Image.fromarray of the height x width x 3 array of uint8: an RGB image
\* of size (width, height).
ImageOf(grid) ==
    [mode   |-> "RGB",
     width  |-> Len(grid[1]),
     height |-> Len(grid),
     pixels |-> [y \in 1..Len(grid) |->
                   [x \in 1..Len(grid[1]) |->
                      [c \in 1..3 |-> Uint8(grid[y][x][c])]]]]

\* ImageOf for a grid of floats.
ImageOfFloats(grid) ==
    [mode   |-> "RGB",
     width  |-> Len(grid[1]),
     height |-> Len(grid),
     pixels |-> [y \in 1..Len(grid) |->
                   [x \in 1..Len(grid[1]) |->
                      [c \in 1..3 |-> FloatToUint8(grid[y][x][c])]]]]

\* Image.fromarray of the empty one-dimensional array.
EmptyImage == [mode |-> "L", width |-> 1, height |-> 0, pixels |-> << >>]

\* One turn of the loop of lines 200-205.
Enumerate ==
    /\ render_pc = "loop"
    /\ k < Len(array)
    /\ LET rgb == RgbOf(rgb_provider, array[k + 1])
       IN  rgbs' = IF k % CANVAS_WIDTH = 0
                   THEN Append(rgbs, <<rgb>>)
                   ELSE [rgbs EXCEPT ![Len(rgbs)] = Append(@, rgb)]
    /\ k' = k + 1
    /\ UNCHANGED <<array, rgb_provider, overflow_raises, image,
                   render_raised, render_pc, offset, range, scale,
                   float_wraps>>
    /\ UNCHANGED replayVars

\* return Image.fromarray(np.array(rgbs, dtype=np.uint8)), line 207.
FromArray ==
    /\ render_pc = "loop"
    /\ k = Len(array)
    /\ IF rgbs = << >>
       THEN \* what the imaging library makes of an empty array is its own
            \* affair: it refuses it or returns an image without pixels
            \E refused \in BOOLEAN :
               IF refused
               THEN /\ render_raised' = "ValueError"
                    /\ render_pc' = "failed"
                    /\ UNCHANGED image
               ELSE /\ image' = EmptyImage
                    /\ render_pc' = "done"
                    /\ UNCHANGED render_raised
       ELSE IF ~Rectangular(rgbs)
       THEN /\ render_raised' = "ValueError"
            /\ render_pc' = "failed"
            /\ UNCHANGED image
       ELSE IF rgb_provider = "intensity"
       THEN /\ image' = ImageOfFloats(rgbs)
            /\ render_pc' = "done"
            /\ UNCHANGED render_raised
       ELSE IF overflow_raises /\ \E c \in Components(rgbs) : ~FitsUint8(c)
       THEN /\ render_raised' = "OverflowError"
            /\ render_pc' = "failed"
            /\ UNCHANGED image
       ELSE /\ image' = ImageOf(rgbs)
            /\ render_pc' = "done"
            /\ UNCHANGED render_raised
    /\ UNCHANGED <<array, rgb_provider, overflow_raises, k, rgbs, offset,
                   range, scale, float_wraps>>
    /\ UNCHANGED replayVars

ReplayIdle ==
    /\ source = << >>
    /\ logger = FALSE
    /\ overriding = FALSE
    /\ rows_between_updates = DefaultInterval
    /\ rows_processed = 0
    /\ _result = None
    /\ file = "unopened"
    /\ position = 0
    /\ pc = "idle"
    /\ returned = None
    /\ raised = None
    /\ trace = << >>

InitRender ==
    /\ array \in Arrays
    /\ rgb_provider \in Providers
    /\ overflow_raises \in BOOLEAN
    /\ k = 0
    /\ rgbs = << >>
    /\ image = None
    /\ render_raised = None
    /\ render_pc = "loop"
    /\ offset = 0
    /\ range = 0
    /\ scale = [num |-> 0, den |-> 1]
    /\ float_wraps = FALSE
    /\ ReplayIdle

NextRender ==
    \/ Enumerate
    \/ FromArray

SpecRender == InitRender /\ [][NextRender]_vars

(***************************************************************************)
(* generate_intensity_image, lines 209-220.                                *)
(***************************************************************************)
MAX_COLOR_COMPONENT == 255

\* min(array) and max(array) of an array that is not empty.
Min(a) == CHOOSE v \in {a[i] : i \in DOMAIN a} : \A i \in DOMAIN a : v <= a[i]

Max(a) == CHOOSE v \in {a[i] : i \in DOMAIN a} : \A i \in DOMAIN a : v >= a[i]

IntensityArrays ==
    UNION {[1..n -> 0..MaxIntensity] : n \in 0..(CANVAS_WIDTH * CANVAS_HEIGHT)}

\* Lines 212-216: offset, range and scale, and the closure over them.
\* min() of an empty array raises ValueError, the division by a range of 0
\* raises ZeroDivisionError.
Rescale ==
    /\ render_pc = "intensity"
    /\ IF array = << >>
       THEN /\ render_raised' = "ValueError"
            /\ render_pc' = "failed"
            /\ UNCHANGED <<offset, range, scale, rgb_provider>>
       ELSE IF Max(array) - Min(array) = 0
       THEN /\ offset' = Min(array)
            /\ range' = 0
            /\ render_raised' = "ZeroDivisionError"
            /\ render_pc' = "failed"
            /\ UNCHANGED <<scale, rgb_provider>>
       ELSE /\ offset' = Min(array)
            /\ range' = Max(array) - Min(array)
            /\ scale' = [num |-> MAX_COLOR_COMPONENT,
                         den |-> Max(array) - Min(array)]
            /\ rgb_provider' = "intensity"
            /\ render_pc' = "loop"
            /\ UNCHANGED render_raised
    /\ UNCHANGED <<array, overflow_raises, k, rgbs, image, float_wraps>>
    /\ UNCHANGED replayVars

InitIntensity ==
    /\ array \in IntensityArrays
    /\ rgb_provider = "none"
    /\ overflow_raises = FALSE
    /\ k = 0
    /\ rgbs = << >>
    /\ image = None
    /\ render_raised = None
    /\ render_pc = "intensity"
    /\ offset = 0
    /\ range = 0
    /\ scale = [num |-> 0, den |-> 1]
    /\ float_wraps \in BOOLEAN
    /\ ReplayIdle

NextIntensity ==
    \/ Rescale
    \/ Enumerate
    \/ FromArray

SpecIntensity == InitIntensity /\ [][NextIntensity]_vars

(***************************************************************************)
(* Vocabulary of the properties.                                           *)
(***************************************************************************)
Handlers == {"on_pixel", "on_rectangle"}

\* A handler call perform_analysis makes on the analysis it was given.
IsDriverCall(e) == e.op \in Handlers /\ e.target \in {"logger", "analysis"}

\* A handler call Logger forwards to its delegate.
IsDelegateCall(e) == e.op \in Handlers /\ e.target = "delegate"

DriverCalls == SelectSeq(trace, IsDriverCall)

DelegateCalls == SelectSeq(trace, IsDelegateCall)

\* Positions of the trace where perform_analysis calls analysis.result(),
\* and where that call returns.
DriverResults ==
    {i \in DOMAIN trace : /\ trace[i].op = "result"
                          /\ trace[i].target \in {"logger", "analysis"}}

DriverReturns ==
    {i \in DOMAIN trace : /\ trace[i].op = "return"
                          /\ trace[i].target \in {"logger", "analysis"}}

Positions(op) == {i \in DOMAIN trace : trace[i].op = op}

Decodes(row) == DecodeError(row) = None

WellFormed(rows) == \A i \in 1..Len(rows) : Decodes(rows[i])

DecodeErrors == {"ValueError", "IndexError"}

\* A row whose columns, timestamp and integers are fine and whose geometry
\* holds n integers.
HoldsIntegers(row, n) ==
    /\ Len(row) > COORDINATE_COLUMN
    /\ IsoValid(Slice(Column(row, TIMESTAMP_COLUMN), 0, DATETIME_CHARS))
    /\ \A i \in 1..Len(Split(Column(row, COORDINATE_COLUMN))) :
          IntValid(Split(Column(row, COORDINATE_COLUMN))[i])
    /\ Len(Split(Column(row, COORDINATE_COLUMN))) = n

(***************************************************************************)
(* C1.  A source of N well-formed records gets exactly N handler calls,    *)
(* one per record, the i-th call being the one for the i-th record: at     *)
(* every moment the calls made so far are the calls for the first records  *)
(* of the source in order, every row consumed without a failure has its    *)
(* call, the run ends only when every row is consumed, and a run over      *)
(* well-formed records never fails in decoding.                            *)
(***************************************************************************)
C1_OneCallPerRecordInOrder ==
    /\ Len(DriverCalls) <= position
    /\ \A i \in 1..Len(DriverCalls) :
          /\ Decodes(source[i])
          /\ DriverCalls[i].op = HandlerOf(source[i])
          /\ DriverCalls[i].arg = <<CallOf(source[i])>>
    /\ (\A i \in 1..position : Decodes(source[i])) =>
          Len(DriverCalls) = position
    /\ pc \in {"result", "done"} =>
          /\ position = Len(source)
          /\ Len(DriverCalls) = Len(source)
    /\ WellFormed(source) => raised \notin DecodeErrors

C1_Witness ==
    /\ pc = "done"
    /\ Len(source) >= 2
    /\ Len(DriverCalls) = Len(source)
    /\ DriverCalls[1].op = "on_rectangle"
    /\ DriverCalls[2].op = "on_pixel"

(***************************************************************************)
(* C2.  In a successful run analysis.result() is called exactly once,      *)
(* after every handler call and never before the source is exhausted, and  *)
(* perform_analysis returns the value that call returned.                  *)
(***************************************************************************)
C2_ResultOnceAtTheEnd ==
    /\ Cardinality(DriverResults) <= 1
    /\ \A r \in DriverResults : \A j \in DOMAIN trace :
          IsDriverCall(trace[j]) => j < r
    /\ DriverResults # {} =>
          /\ position = Len(source)
          /\ Len(DriverCalls) = Len(source)
    /\ pc \in {"start", "loop", "result"} => DriverResults = {}
    /\ pc = "done" =>
          /\ Cardinality(DriverResults) = 1
          /\ Cardinality(DriverReturns) = 1
          /\ \A r \in DriverReturns : trace[r].arg = <<returned>>

C2_Witness ==
    /\ pc = "done"
    /\ overriding
    /\ Len(DriverCalls) >= 2
    /\ Len(returned) = Len(DriverCalls)

(***************************************************************************)
(* C3.  A run that fails during replay (decoding, reading or a handler     *)
(* raising) never calls result(), on the analysis given or on a delegate,  *)
(* and returns nothing.                                                    *)
(***************************************************************************)
C3_NoResultAfterFailure ==
    raised \notin {None, "ResultError"} =>
        /\ Positions("result") = {}
        /\ Positions("return") = {}
        /\ returned = None
        /\ pc = "failed"

C3_Witness ==
    /\ pc = "failed"
    /\ raised = "HandlerError"
    /\ Len(DriverCalls) >= 2

(***************************************************************************)
(* C4.  A record of exactly 2 integers goes to on_pixel with (x, y), one   *)
(* of exactly 4 integers to on_rectangle with (x1, y1, x2, y2) in that     *)
(* order, and actor and color reach the handler unchanged.                 *)
(***************************************************************************)
C4_DispatchByGeometry ==
    /\ \A i \in 1..position :
          (HoldsIntegers(source[i], 2) \/ HoldsIntegers(source[i], 4)) =>
              i <= Len(DriverCalls)
    /\ \A i \in 1..Len(DriverCalls) :
          LET row == source[i]
              texts == Split(row[4])
              call == DriverCalls[i].arg[1]
          IN  /\ HoldsIntegers(row, 2) =>
                    /\ DriverCalls[i].op = "on_pixel"
                    /\ call.handler = "on_pixel"
                    /\ call.coordinates =
                          <<IntValue(texts[1]), IntValue(texts[2])>>
              /\ HoldsIntegers(row, 4) =>
                    /\ DriverCalls[i].op = "on_rectangle"
                    /\ call.handler = "on_rectangle"
                    /\ call.coordinates =
                          <<IntValue(texts[1]), IntValue(texts[2]),
                            IntValue(texts[3]), IntValue(texts[4])>>
              /\ call.redditor = row[2]
              /\ call.color = row[3]
              /\ row = PixelRow => call.coordinates = <<0, 0>>
              /\ row = PixelRowC => call.coordinates = <<1, 1>>
              /\ row = RectangleRow => call.coordinates = <<0, 0, 1, 1>>
              /\ row = InvertedRow => call.coordinates = <<1, 1, 0, 0>>

C4_Witness ==
    /\ Len(DriverCalls) >= 2
    /\ source[1] = InvertedRow
    /\ source[2] = PixelRowC
    /\ DriverCalls[1].op = "on_rectangle"
    /\ DriverCalls[2].op = "on_pixel"

(***************************************************************************)
(* C5.  A record whose geometry holds a number of integers other than 2    *)
(* or 4 makes perform_analysis fail with a ValueError, and no handler is   *)
(* invoked for it: it is the last row consumed and the calls made are      *)
(* those of the rows before it.                                            *)
(***************************************************************************)
C5_OtherCountFails ==
    \A i \in 1..position :
        (\E n \in {0, 1, 3, 5, 6} : HoldsIntegers(source[i], n)) =>
            /\ i = position
            /\ pc = "failed"
            /\ raised = "ValueError"
            /\ Len(DriverCalls) = i - 1

C5_Witness ==
    /\ position >= 2
    /\ source[position] = ThreeIntRow
    /\ pc = "failed"
    /\ Len(DriverCalls) = position - 1

(***************************************************************************)
(* C6.  Logger is transparent: its delegate receives exactly the calls     *)
(* perform_analysis makes, which are the calls an unwrapped analysis       *)
(* receives (the call of each row, in order), Logger.result() returns the  *)
(* delegate's value, and with an interval >= 1 Logger raises nothing of    *)
(* its own.                                                                *)
(***************************************************************************)
C6_LoggerTransparent ==
    logger =>
        /\ Len(DelegateCalls) = Len(DriverCalls)
        /\ \A i \in 1..Len(DelegateCalls) :
              /\ DelegateCalls[i].op = DriverCalls[i].op
              /\ DelegateCalls[i].arg = DriverCalls[i].arg
              /\ Decodes(source[i])
              /\ DelegateCalls[i].op = HandlerOf(source[i])
              /\ DelegateCalls[i].arg = <<CallOf(source[i])>>
        /\ (\A i \in 1..position : Decodes(source[i])) =>
              Len(DelegateCalls) = position
        /\ rows_between_updates >= 1 => raised # "ZeroDivisionError"
        /\ pc = "done" =>
              /\ returned = _result
              /\ \A r \in Positions("return") : trace[r].arg = <<returned>>
              /\ IF overriding
                 THEN returned = [i \in 1..Len(source) |-> CallOf(source[i])]
                 ELSE returned = None

C6_Witness ==
    /\ logger
    /\ overriding
    /\ rows_between_updates = 1
    /\ pc = "done"
    /\ Len(DelegateCalls) >= 2
    /\ \E i \in DOMAIN trace : trace[i].op = "print"

(***************************************************************************)
(* C7.  Every rectangle passed to on_rectangle has x2 >= x1 and y2 >= y1   *)
(* and both corners inside the canvas.                                     *)
(***************************************************************************)
C7_RectanglesWellFormed ==
    \A i \in DOMAIN trace :
        trace[i].op = "on_rectangle" =>
            LET c == trace[i].arg[1].coordinates
            IN  /\ c[3] >= c[1]
                /\ c[4] >= c[2]
                /\ c[1] \in 0..(CANVAS_WIDTH - 1)
                /\ c[3] \in 0..(CANVAS_WIDTH - 1)
                /\ c[2] \in 0..(CANVAS_HEIGHT - 1)
                /\ c[4] \in 0..(CANVAS_HEIGHT - 1)

(***************************************************************************)
(* C8.  The source is acquired once, before anything else, and released    *)
(* on every exit path: it is open exactly while the loop runs, and it is   *)
(* closed before result() is called and before perform_analysis returns    *)
(* or propagates an exception.                                             *)
(***************************************************************************)
C8_SourceReleased ==
    /\ Cardinality(Positions("open")) <= 1
    /\ Cardinality(Positions("close")) <= 1
    /\ Positions("open") \subseteq {1}
    /\ (file = "unopened") <=> (Positions("open") = {})
    /\ (file = "open") <=> (pc = "loop")
    /\ (file = "closed") <=> (Positions("close") # {})
    /\ pc \in {"result", "done", "failed"} =>
          /\ file # "open"
          /\ Positions("open") # {} => file = "closed"
    /\ \A c \in Positions("close") : \A j \in DOMAIN trace :
          trace[j].op \in {"result", "return"} => c < j

C8_Witness ==
    /\ pc = "failed"
    /\ raised \in DecodeErrors
    /\ file = "closed"
    /\ Len(DriverCalls) >= 1

(***************************************************************************)
(* Vocabulary of the properties of generate_image.                         *)
(***************************************************************************)
\* The cell (x, y) of the image, x and y counted from 0.
Cell(x, y) == image.pixels[y + 1][x + 1]

\* rgb_provider of the cell of the array that belongs to (x, y).
Provided(x, y) == RgbOf(rgb_provider, array[y * CANVAS_WIDTH + x + 1])

CanvasSized == Len(array) = CANVAS_WIDTH * CANVAS_HEIGHT

ProviderFits ==
    \A i \in 1..Len(array) : \A c \in 1..3 :
        FitsUint8(RgbOf(rgb_provider, array[i])[c])

(***************************************************************************)
(* C9 as stated.  generate_image on an array of CANVAS_WIDTH *             *)
(* CANVAS_HEIGHT cells produces an image of CANVAS_WIDTH x CANVAS_HEIGHT    *)
(* pixels whose cell (x, y) equals rgb_provider(array[y*CANVAS_WIDTH+x]).   *)
(***************************************************************************)
C9_CellsEqualProvider ==
    (CanvasSized /\ render_pc \in {"done", "failed"}) =>
        /\ render_pc = "done"
        /\ image.width = CANVAS_WIDTH
        /\ image.height = CANVAS_HEIGHT
        /\ \A x \in 0..(CANVAS_WIDTH - 1) : \A y \in 0..(CANVAS_HEIGHT - 1) :
              Cell(x, y) = Provided(x, y)

(***************************************************************************)
(* C9 as amended.  On an array of CANVAS_WIDTH * CANVAS_HEIGHT cells:      *)
(* when every component rgb_provider returns is an integer in 0..255,      *)
(* generate_image returns an image of CANVAS_WIDTH x CANVAS_HEIGHT pixels   *)
(* whose cell (x, y) equals rgb_provider(array[y*CANVAS_WIDTH+x]); in      *)
(* general an image it returns has that size and its cell (x, y) holds     *)
(* each component of rgb_provider(array[y*CANVAS_WIDTH+x]) reduced modulo  *)
(* 256, and it fails only where numpy refuses a component outside 0..255.  *)
(***************************************************************************)
C9_CellsEqualProviderAsUint8 ==
    (CanvasSized /\ render_pc \in {"done", "failed"}) =>
        /\ ProviderFits => render_pc = "done"
        /\ render_pc = "failed" =>
              /\ overflow_raises
              /\ render_raised = "OverflowError"
        /\ render_pc = "done" =>
              /\ image.mode = "RGB"
              /\ image.width = CANVAS_WIDTH
              /\ image.height = CANVAS_HEIGHT
              /\ \A x \in 0..(CANVAS_WIDTH - 1) :
                    \A y \in 0..(CANVAS_HEIGHT - 1) :
                       /\ \A c \in 1..3 :
                             Cell(x, y)[c] = Provided(x, y)[c] % 256
                       /\ ProviderFits => Cell(x, y) = Provided(x, y)

C9_Witness ==
    /\ CanvasSized
    /\ render_pc = "done"
    /\ rgb_provider = "palette"
    /\ \E i \in 1..Len(array) : array[i] # array[1]
    /\ Cell(CANVAS_WIDTH - 1, CANVAS_HEIGHT - 1) =
          Provided(CANVAS_WIDTH - 1, CANVAS_HEIGHT - 1)

(***************************************************************************)
(* C10.  generate_image on an array of any length other than               *)
(* CANVAS_WIDTH * CANVAS_HEIGHT fails, and returns no image.  Stated for   *)
(* the arrays the code itself decides, those with at least one cell: what  *)
(* becomes of the empty array is left to the imaging library.              *)
(***************************************************************************)
C10_OtherLengthFails ==
    (~CanvasSized /\ array # << >> /\ render_pc \in {"done", "failed"}) =>
        /\ render_pc = "failed"
        /\ render_raised # None

(***************************************************************************)
(* Vocabulary of the properties of generate_intensity_image.               *)
(***************************************************************************)
\* The value the provider returned for the i-th cell of the array (one of
\* its three equal components), once the loop has passed it.
Gray(i) == rgbs[((i - 1) \div CANVAS_WIDTH) + 1][((i - 1) % CANVAS_WIDTH) + 1][1]

AllEqual(a) == \A i \in DOMAIN a : a[i] = a[1]

(***************************************************************************)
(* C11.  generate_intensity_image rescales linearly to [0, 255]: with      *)
(* max > min every intensity v maps to the gray value                      *)
(* 255 * (v - min) / (max - min), so the minimum to 0 and the maximum to   *)
(* 255, every value lies in 0..255, and the image holds that value         *)
(* (truncated to 8 bits) in the three channels of the cell.                *)
(***************************************************************************)
C11_LinearRescale ==
    (rgb_provider = "intensity" /\ Max(array) > Min(array)) =>
        /\ \A i \in 1..k :
              /\ Gray(i).num * (Max(array) - Min(array)) =
                    255 * (array[i] - Min(array)) * Gray(i).den
              /\ Gray(i).num >= 0
              /\ Gray(i).num <= 255 * Gray(i).den
              /\ array[i] = Min(array) => Gray(i).num = 0
              /\ array[i] = Max(array) => Gray(i).num = 255 * Gray(i).den
        /\ (render_pc = "done" /\ Len(array) = CANVAS_WIDTH * CANVAS_HEIGHT) =>
              \A x \in 0..(CANVAS_WIDTH - 1) : \A y \in 0..(CANVAS_HEIGHT - 1) :
                 \A c \in 1..3 :
                    image.pixels[y + 1][x + 1][c] =
                       (255 * (array[y * CANVAS_WIDTH + x + 1] - Min(array)))
                          \div (Max(array) - Min(array))

(***************************************************************************)
(* C12.  generate_intensity_image on an array whose values are all equal   *)
(* does not fail and does not divide by zero: it returns an image whose    *)
(* cells all hold one color.                                               *)
(***************************************************************************)
C12_DegenerateRangeHandled ==
    (array # << >> /\ AllEqual(array) /\ render_pc # "intensity") =>
        /\ render_pc # "failed"
        /\ render_raised = None
        /\ render_pc = "done" =>
              \A y \in 1..image.height : \A x \in 1..image.width :
                 image.pixels[y][x] = image.pixels[1][1]

(***************************************************************************)
(* Vocabulary of the properties of Logger.                                 *)
(***************************************************************************)
\* What Logger.log prints for a message.
Line(message) == Ljust(message, MESSAGE_LENGTH) \o <<"\r">>

ProgressLine(n) == Line(Str(n) \o RowsProcessedText)

IsProgress(e) ==
    /\ e.op = "print"
    /\ \E n \in 0..(MaxRows + 1) : e.arg = <<ProgressLine(n)>>

ProgressPrints == {p \in DOMAIN trace : IsProgress(trace[p])}

Prints(message) ==
    {p \in DOMAIN trace : /\ trace[p].op = "print"
                          /\ trace[p].arg = <<Line(message)>>}

\* Delegate calls before position p of the trace.
ForwardedBefore(p) ==
    Cardinality({q \in 1..(p - 1) : IsDelegateCall(trace[q])})

\* Handler calls the delegate has handled without raising.
Completed ==
    Len(DelegateCalls) - (IF raised = "HandlerError" THEN 1 ELSE 0)

OneRowLine ==
    <<"1", " ", "r", "o", "w", "s", " ", "p", "r", "o", "c", "e", "s", "s",
      "e", "d", " ", " ", " ", " ", " ", " ", " ", " ", " ", " ", " ", " ",
      " ", " ", "\r">>

(***************************************************************************)
(* C13.  When the decoding of a record fails, the handler calls of the run *)
(* are exactly the calls for the records before it, in order: the failing  *)
(* record is the last one consumed, no handler is invoked for it or for a  *)
(* later record, and the failure propagates.                               *)
(***************************************************************************)
C13_DecodeFailureAborts ==
    \A i \in 1..position :
        ~Decodes(source[i]) =>
            /\ i = position
            /\ pc = "failed"
            /\ raised = DecodeError(source[i])
            /\ Len(DriverCalls) = i - 1
            /\ \A j \in 1..(i - 1) :
                  /\ Decodes(source[j])
                  /\ DriverCalls[j].arg = <<CallOf(source[j])>>

C13_Witness ==
    /\ position = 2
    /\ Len(source) = 2
    /\ source[2] = NotAnIntRow
    /\ pc = "failed"
    /\ Len(DriverCalls) = 1

(***************************************************************************)
(* C14.  A Logger with interval k >= 1 forwards each call to the delegate  *)
(* and then counts it, and prints a progress message exactly when the      *)
(* count becomes a multiple of k: after N handled calls there are          *)
(* floor(N/k) progress messages, each printed right after the delegate     *)
(* handled the event whose number, a multiple of k, it reports.            *)
(***************************************************************************)
C14_ProgressEveryInterval ==
    (logger /\ rows_between_updates >= 1) =>
        /\ Cardinality(ProgressPrints) = Completed \div rows_between_updates
        /\ \A p \in ProgressPrints :
              /\ p > 1
              /\ IsDelegateCall(trace[p - 1])
              /\ ForwardedBefore(p) >= 1
              /\ ForwardedBefore(p) % rows_between_updates = 0
              /\ trace[p].arg = <<ProgressLine(ForwardedBefore(p))>>
              /\ ForwardedBefore(p) = 1 => trace[p].arg = <<OneRowLine>>

C14_Witness ==
    /\ logger
    /\ rows_between_updates = 2
    /\ pc = "done"
    /\ Len(DelegateCalls) = 2
    /\ Cardinality(ProgressPrints) = 1

(***************************************************************************)
(* C15.  Logger.result() prints 'Formulating final result', calls the      *)
(* delegate's result() once, prints 'Done' and returns the delegate's      *)
(* value, in this order and nothing else; 'Done' is never printed before   *)
(* the delegate's result() has returned, and neither message is printed    *)
(* when the replay failed.                                                 *)
(***************************************************************************)
C15_LoggerResultOrder ==
    logger =>
        /\ Cardinality(Prints(FormulatingText)) <= 1
        /\ Cardinality(Prints(DoneText)) <= 1
        /\ pc \in {"start", "loop", "result"} =>
              Prints(FormulatingText) \cup Prints(DoneText) = {}
        /\ raised \notin {None, "ResultError"} =>
              Prints(FormulatingText) \cup Prints(DoneText) = {}
        /\ \A d \in Prints(DoneText) :
              /\ trace[d - 1].op = "return"
              /\ trace[d - 1].target = "delegate"
        /\ raised = "ResultError" =>
              /\ Prints(DoneText) = {}
              /\ Prints(FormulatingText) = {Len(trace) - 1}
              /\ trace[Len(trace)].op = "result"
              /\ trace[Len(trace)].target = "delegate"
        /\ pc = "done" =>
              LET n == Len(trace)
              IN  /\ n >= 6
                  /\ trace[n - 5].op = "result"
                  /\ trace[n - 5].target = "logger"
                  /\ Prints(FormulatingText) = {n - 4}
                  /\ trace[n - 3].op = "result"
                  /\ trace[n - 3].target = "delegate"
                  /\ trace[n - 2].op = "return"
                  /\ trace[n - 2].target = "delegate"
                  /\ Prints(DoneText) = {n - 1}
                  /\ trace[n].op = "return"
                  /\ trace[n].target = "logger"
                  /\ trace[n].arg = trace[n - 2].arg
                  /\ trace[n].arg = <<returned>>
                  /\ Cardinality(Positions("result")) = 2
                  /\ Cardinality(Positions("return")) = 2

C15_Witness ==
    /\ logger
    /\ overriding
    /\ pc = "done"
    /\ Len(returned) = 2
    /\ Prints(DoneText) # {}

(***************************************************************************)
(* C16.  Only the first 19 characters of the timestamp field are parsed:   *)
(* records whose fields agree on them are dispatched with the same         *)
(* timestamp whatever follows, and a record whose first 19 characters are  *)
(* no date-time fails decoding with no handler invoked for it.             *)
(***************************************************************************)
C16_TimestampPrefix ==
    /\ \A i \in 1..position :
          (HoldsIntegers(source[i], 2) \/ HoldsIntegers(source[i], 4)) =>
              i <= Len(DriverCalls)
    /\ \A i \in 1..Len(DriverCalls) : \A j \in 1..Len(DriverCalls) :
          Slice(source[i][1], 0, 19) = Slice(source[j][1], 0, 19) =>
              DriverCalls[i].arg[1].timestamp = DriverCalls[j].arg[1].timestamp
    /\ \A i \in 1..Len(DriverCalls) :
          /\ source[i][1] \in {TimestampA, TimestampB} =>
                DriverCalls[i].arg[1].timestamp =
                   [year |-> 2022, month |-> 4, day |-> 1,
                    hour |-> 12, minute |-> 44, second |-> 10]
          /\ source[i][1] = TimestampC =>
                DriverCalls[i].arg[1].timestamp =
                   [year |-> 2022, month |-> 4, day |-> 4,
                    hour |-> 0, minute |-> 53, second |-> 51]
    /\ \A i \in 1..position :
          (Len(source[i]) >= 1 /\ ~IsoValid(Slice(source[i][1], 0, 19))) =>
              /\ i = position
              /\ pc = "failed"
              /\ raised = "ValueError"
              /\ Len(DriverCalls) = i - 1

C16_Witness ==
    /\ Len(DriverCalls) = 2
    /\ source[1][1] = TimestampA
    /\ source[2][1] = TimestampB
    /\ DriverCalls[1].arg[1].timestamp = DriverCalls[2].arg[1].timestamp

(***************************************************************************)
(* C17.  The base Analysis is a no-op aggregator: its handlers leave       *)
(* _result as it was, so result() returns None after any calls.            *)
(***************************************************************************)
C17_BaseAnalysisIsNoOp ==
    ~overriding =>
        /\ _result = None
        /\ \A r \in Positions("return") : trace[r].arg = <<None>>
        /\ pc = "done" => returned = None

C17_Witness ==
    /\ ~overriding
    /\ pc = "done"
    /\ Len(DriverCalls) = 2
    /\ DriverCalls[1].op = "on_pixel"
    /\ DriverCalls[2].op = "on_rectangle"
    /\ returned = None

(***************************************************************************)
(* C18.  In every state rows_processed of a Logger is the number of        *)
(* handler calls the delegate has handled without raising: a call in       *)
(* which the delegate raises is not counted and prints nothing, and        *)
(* Logger.result() leaves the count alone.                                 *)
(***************************************************************************)
C18_RowsProcessedCountsForwarded ==
    /\ ~logger => rows_processed = 0
    /\ logger =>
          /\ rows_processed = Completed
          /\ raised = "HandlerError" =>
                /\ IsDelegateCall(trace[Len(trace) - 1])
                /\ trace[Len(trace)].op = "close"
          /\ pc \in {"result", "done"} => rows_processed = Len(source)
          /\ raised = "ResultError" => rows_processed = Len(source)

C18_Witness ==
    /\ logger
    /\ raised = "HandlerError"
    /\ Len(DelegateCalls) = 2
    /\ rows_processed = 1

====
